---- MODULE Spec2Model ----
(***************************************************************************)
(* A model of src/efifile.c (wimboot, EFI file system access):             *)
(*   efi_patch_bcd  - the in-place ".exe" -> ".efi" patch of a BCD buffer  *)
(*   efi_extract    - the scan of the root directory into vdisk_files[]    *)
(*   efi_read_file  - the positioned read through the firmware file        *)
(* Wide characters are 16-bit code units stored little-endian (CHAR16 and  *)
(* wchar_t are the same type in this build: efi_extract hands CHAR16       *)
(* strings to wcscasecmp).  Text is written as tuples of code units:       *)
(*   46 '.'  48 '0'  50 '2'  52 '4'  54 '6'  92 '\'                        *)
(*   65..90 'A'..'Z'    97..122 'a'..'z'    0 the terminator               *)
(***************************************************************************)
EXTENDS Integers, Sequences, FiniteSets, TLC

VARIABLES
    cmdline_rawbcd,   \* the raw-BCD configuration flag
    data,             \* efi_patch_bcd: memory starting at the pointer `data', one byte per element
    len,              \* efi_patch_bcd: the length argument (the buffer is data[0 .. len-1])
    data0,            \* the same memory as it was when efi_patch_bcd was called
    bcd_pc,           \* efi_patch_bcd: "idle" | "call" | "returned" | "fault"
    acc_hi,           \* highest byte offset efi_patch_bcd touched, -1 when none
    ext_pc,           \* efi_extract: "idle" | "open_fs" | "open_root" | "scan" | "returned" | "fatal_*"
    idx,              \* efi_extract: the local idx, number of slots filled in this pass
    vdisk_files,      \* the global table, and the memory right after it (slot VDISK_MAX_FILES + 1)
    bootmgfw,         \* the global boot file name buffer, as the string it holds
    dir,              \* the entries root->Read has returned in this pass, in order
    nopen,            \* number of root->Open calls made in this pass
    suffix_cmp,       \* the ".wim" comparison made for the last entry: <<first unit read,
                      \* units read>>, counted from the start of the name; <<>> when none
    pass,             \* number of the current call of efi_extract in this process
    rd_pc,            \* efi_read_file: "idle" | "set_position" | "read" | "returned" | "fatal_*"
    file_bytes,       \* the content of the firmware file behind vfile->opaque
    file_pos,         \* the firmware's position in that file
    rd_offset,        \* efi_read_file: the offset argument
    rd_len,           \* efi_read_file: the len argument
    rd_data,          \* efi_read_file: the buffer at data, rd_len bytes
    rd_size,          \* efi_read_file: the local size, updated by file->Read
    rd_calls          \* the firmware calls efi_read_file has made, in order

bcd_vars == <<cmdline_rawbcd, data, len, data0, bcd_pc, acc_hi>>
ext_vars == <<ext_pc, idx, vdisk_files, bootmgfw, dir, nopen, suffix_cmp, pass>>
rd_vars == <<rd_pc, file_bytes, file_pos, rd_offset, rd_len, rd_data, rd_size, rd_calls>>

vars == <<bcd_vars, ext_vars, rd_vars>>

(***************************************************************************)
(* Bounds of the model.                                                    *)
(***************************************************************************)
\* number of segments the memory handed to efi_patch_bcd is assembled from
MaxSegs == 3
\* capacity of vdisk_files[] (the program's VDISK_MAX_FILES, scaled down)
VDISK_MAX_FILES == 3
\* number of calls of efi_extract in one process that are followed
MaxPasses == 2
\* longest firmware file, and largest len, of the calls of efi_read_file
MaxFileLen == 3

(***************************************************************************)
(* The state before any of the three functions is called                   *)
(***************************************************************************)
\* a slot of vdisk_files[] as the zero-initialised global has it
EmptySlot == [name |-> <<>>, len |-> 0, opaque |-> 0, read |-> "NULL", patch |-> "NULL"]

\* efi_extract is not running
ExtIdle ==
    /\ ext_pc = "idle"
    /\ idx = 0
    /\ vdisk_files = [i \in 1..(VDISK_MAX_FILES + 1) |-> EmptySlot]
    /\ bootmgfw = <<>>
    /\ dir = <<>>
    /\ nopen = 0
    /\ suffix_cmp = <<>>
    /\ pass = 0

\* efi_patch_bcd is not running
BcdIdle ==
    /\ cmdline_rawbcd = FALSE
    /\ data = <<>>
    /\ len = 0
    /\ data0 = <<>>
    /\ bcd_pc = "idle"
    /\ acc_hi = -1

\* efi_read_file is not running
RdIdle ==
    /\ rd_pc = "idle"
    /\ file_bytes = <<>>
    /\ file_pos = 0
    /\ rd_offset = 0
    /\ rd_len = 0
    /\ rd_data = <<>>
    /\ rd_size = 0
    /\ rd_calls = <<>>

(***************************************************************************)
(* Wide strings                                                            *)
(***************************************************************************)
Max(a, b) == IF a >= b THEN a ELSE b

\* the storage of a sequence of code units: two bytes each, low byte first
RECURSIVE Bytes(_)
Bytes(units) ==
    IF units = <<>> THEN <<>>
    ELSE <<Head(units) % 256, Head(units) \div 256>> \o Bytes(Tail(units))

\* the code units a wide-character pointer at byte offset i of m reads, up to
\* the top of the memory (an odd byte left over at the top is no code unit)
UnitsAt(m, i) ==
    [k \in 1..((Len(m) - i) \div 2) |-> m[i + 2 * k - 1] + 256 * m[i + 2 * k]]

\* case folding of one code unit: only 'A'..'Z' have another case
towlower(c) == IF c \in 65..90 THEN c + 32 ELSE c

\* wcscasecmp ( s1, s2 ) from unit k on; s1 and s2 are the code units from
\* each pointer to the top of its memory.  res is "equal" (returns 0),
\* "differ" (returns non-zero) or "fault" (ran off the top of a memory before
\* a difference or a terminator); n is the number of code units read from s1.
RECURSIVE wcscasecmp_from(_, _, _)
wcscasecmp_from(s1, s2, k) ==
    IF k > Len(s1) \/ k > Len(s2) THEN [res |-> "fault", n |-> k - 1]
    ELSE IF towlower(s1[k]) # towlower(s2[k]) THEN [res |-> "differ", n |-> k]
    ELSE IF s1[k] = 0 THEN [res |-> "equal", n |-> k]
    ELSE wcscasecmp_from(s1, s2, k + 1)

wcscasecmp(s1, s2) == wcscasecmp_from(s1, s2, 1)

(***************************************************************************)
(* efi_patch_bcd                                                           *)
(***************************************************************************)
\* static const wchar_t search[] = L".exe" and replace[] = L".efi", with
\* their terminators
search == <<46, 101, 120, 101, 0>>
replace == <<46, 101, 102, 105, 0>>

\* sizeof ( search ), sizeof ( replace ): bytes, terminator included
sizeof_search == Len(Bytes(search))
sizeof_replace == Len(Bytes(replace))

\* the loop condition i < ( len - sizeof ( search ) ).  Both operands are
\* size_t, so the difference is taken modulo 2^N (N the width of size_t): for
\* n < sizeof ( search ) it is 2^N - ( sizeof ( search ) - n ), which is above
\* every offset i of an addressable byte, and the condition is true.
LoopCond(i, n) ==
    IF n >= sizeof_search THEN i < n - sizeof_search ELSE TRUE

\* memcpy ( ( data + i ), src, count ): count bytes of src over m from byte
\* offset i
memcpy(m, i, src, count) ==
    [j \in 1..Len(m) |-> IF j - 1 \in i..(i + count - 1) THEN src[j - i] ELSE m[j]]

\* the patch of one match, line 109, writing off by one character
PatchAt_shifted(m, i) == memcpy(m, i + 2, Bytes(replace), sizeof_replace)

\* the patch of one match, line 109
PatchAt(m, i) == memcpy(m, i, Bytes(replace), sizeof_replace)

\* the for loop of efi_patch_bcd from index i on; hi is the highest byte
\* offset touched so far.  A comparison that runs off the top of the modelled
\* memory ends the run as "fault": what lies there is not the program's.
RECURSIVE PatchLoop(_, _, _, _)
PatchLoop(m, n, i, hi) ==
    IF ~LoopCond(i, n) THEN [mem |-> m, hi |-> hi, out |-> "returned"]
    ELSE LET c == wcscasecmp(UnitsAt(m, i), search) IN
         IF c.res = "fault"
         THEN [mem |-> m, hi |-> Max(hi, Len(m)), out |-> "fault"]
         ELSE IF c.res = "equal"
         THEN PatchLoop(PatchAt(m, i), n, i + 1, Max(hi, i + sizeof_replace - 1))
         ELSE PatchLoop(m, n, i + 1, Max(hi, i + 2 * c.n - 1))

\* efi_patch_bcd without the raw-BCD test of lines 100-101
efi_patch_bcd_always(raw, m, n) == PatchLoop(m, n, 0, -1)

\* efi_patch_bcd ( vfile, data, offset, len ) as a function of the flag, the
\* memory at data and len (offset is used in the debug message only)
efi_patch_bcd_result(raw, m, n) ==
    IF raw THEN [mem |-> m, hi |-> -1, out |-> "returned"]
    ELSE PatchLoop(m, n, 0, -1)

(***************************************************************************)
(* efi_extract                                                             *)
(***************************************************************************)
Min(a, b) == IF a <= b THEN a ELSE b

\* EFI_REMOVABLE_MEDIA_FILE_NAME of the x86-64 build, L"\\EFI\\BOOT\\BOOTX64.EFI"
bootarch_full ==
    <<92, 69, 70, 73, 92, 66, 79, 79, 84, 92, 66, 79, 79, 84, 88, 54, 52, 46, 69, 70, 73>>

\* the loop of efi_bootarch: tmp walks bootarch_full from position k, and
\* bootarch (a position, the string starts after it) moves behind every '\'
RECURSIVE bootarch_scan(_, _)
bootarch_scan(k, bootarch) ==
    IF k > Len(bootarch_full) THEN bootarch
    ELSE bootarch_scan(k + 1, IF bootarch_full[k] = 92 THEN k + 1 ELSE bootarch)

\* efi_bootarch(): the file name after the last '\' of bootarch_full
efi_bootarch ==
    SubSeq(bootarch_full, bootarch_scan(1, 1), Len(bootarch_full))

\* sizeof ( vfile->name ), which is also the number of elements of bootmgfw[]
sizeof_vfile_name == 32

\* wcslen of the terminated string s
RECURSIVE wcslen(_)
wcslen(s) == IF s = <<>> \/ Head(s) = 0 THEN 0 ELSE 1 + wcslen(Tail(s))

\* snprintf ( vfile->name, sizeof ( vfile->name ), "%ls", name ): each code
\* unit stored in one char, at most sizeof - 1 of them
narrow(name) ==
    [i \in 1..Min(Len(name), sizeof_vfile_name - 1) |-> name[i] % 256]

\* memcpy ( bootmgfw, name, sizeof ( bootmgfw ) - sizeof ( wchar_t ) ): all
\* elements of bootmgfw but the last are copied from the name, and the last
\* stays zero; the string bootmgfw then holds is the name, cut at that length
marker_of(name) == SubSeq(name, 1, Min(Len(name), sizeof_vfile_name - 1))

\* the struct info after root->Read returned entry e: the four code units of
\* the 64-bit info.file.Attribute (the field right before FileName in the
\* packed struct), then FileName with its terminator.  The attribute bits
\* UEFI defines (EFI_FILE_VALID_ATTR, 0x37) all lie in the lowest byte.
AttributeUnits(a) == <<a % 65536, a \div 65536, 0, 0>>
InfoMem(e) == AttributeUnits(e.attr) \o e.name \o <<0>>
\* position of FileName[0] in InfoMem
NamePos == Len(AttributeUnits(0)) + 1

\* name + ( wcslen ( name ) - 4 ): the subtraction is unsigned and wraps for a
\* name of fewer than 4 characters, and the pointer addition wraps back, so
\* the pointer is 4 - wcslen code units BEFORE name
SuffixPos(name) == NamePos + wcslen(name \o <<0>>) - 4

\* the comparison of line 201-202 on entry e
SuffixCmp(e) ==
    wcscasecmp(SubSeq(InfoMem(e), SuffixPos(e.name), Len(InfoMem(e))),
               <<46, 119, 105, 109, 0>>)

IsEqual(name, lit) == wcscasecmp(name \o <<0>>, lit \o <<0>>).res = "equal"

\* lines 192-205 with "BCD" compared by wcscmp, letter case significant
Classify_case_sensitive(e) ==
    IF \/ IsEqual(e.name, efi_bootarch)
       \/ IsEqual(e.name, <<98, 111, 111, 116, 109, 103, 102, 119, 46, 101, 102, 105>>)
    THEN [boot |-> TRUE, patch |-> "same", cmp |-> <<>>]
    ELSE IF e.name = <<66, 67, 68>>
    THEN [boot |-> FALSE, patch |-> "efi_patch_bcd", cmp |-> <<>>]
    ELSE LET c == SuffixCmp(e) IN
         [boot |-> FALSE,
          patch |-> IF c.res = "equal" THEN "patch_wim" ELSE "same",
          cmp |-> <<SuffixPos(e.name) - NamePos, c.n>>]

\* lines 192-205: what the special-case checks do for entry e.  boot: the
\* name is copied to bootmgfw; patch: the value stored in vfile->patch, or
\* "same" when the field is not written; cmp: the ".wim" comparison made.
Classify(e) ==
    IF \/ IsEqual(e.name, efi_bootarch)
       \/ IsEqual(e.name, <<98, 111, 111, 116, 109, 103, 102, 119, 46, 101, 102, 105>>)
    THEN [boot |-> TRUE, patch |-> "same", cmp |-> <<>>]
    ELSE IF IsEqual(e.name, <<66, 67, 68>>)
    THEN [boot |-> FALSE, patch |-> "efi_patch_bcd", cmp |-> <<>>]
    ELSE LET c == SuffixCmp(e) IN
         [boot |-> FALSE,
          patch |-> IF c.res = "equal" THEN "patch_wim" ELSE "same",
          cmp |-> <<SuffixPos(e.name) - NamePos, c.n>>]

\* the sanity check of line 171 with > in place of >=
TooMany_off_by_one(i) == i > VDISK_MAX_FILES

\* the sanity check of line 171
TooMany(i) == i >= VDISK_MAX_FILES

\* lines 195-197 keeping an earlier match
NextMarker_keep_first(old, name) == IF old = <<>> THEN marker_of(name) ELSE old

\* lines 195-197: the marker after a boot file match
NextMarker(old, name) == marker_of(name)

\* lines 183-187: vfile = &vdisk_files[idx++] and its four assignments (the
\* patch field is not assigned here); i is idx before the increment and h the
\* file handle root->Open returned
AddFile(tbl, i, e, h) ==
    [tbl EXCEPT ![i + 1] =
        [@ EXCEPT !.name = narrow(e.name), !.opaque = h,
                  !.len = e.size, !.read = "efi_read_file"]]

\* the directory entries the firmware may return: name, FileSize, Attribute
\*   BOOTX64.EFI  bootx64.efi  bootmgfw.efi  Bootmgfw.EFI  BCD  bcd
\*   boot.wim  A.WIM  .wim  wim  a  (empty)  bootmgfw.efi.WIM
Entries ==
    { [name |-> <<66, 79, 79, 84, 88, 54, 52, 46, 69, 70, 73>>, size |-> 7, attr |-> 32],
      [name |-> <<98, 111, 111, 116, 120, 54, 52, 46, 101, 102, 105>>, size |-> 9, attr |-> 0],
      [name |-> <<98, 111, 111, 116, 109, 103, 102, 119, 46, 101, 102, 105>>, size |-> 7, attr |-> 32],
      [name |-> <<66, 111, 111, 116, 109, 103, 102, 119, 46, 69, 70, 73>>, size |-> 0, attr |-> 1],
      [name |-> <<66, 67, 68>>, size |-> 9, attr |-> 32],
      [name |-> <<98, 99, 100>>, size |-> 7, attr |-> 55],
      [name |-> <<98, 111, 111, 116, 46, 119, 105, 109>>, size |-> 9, attr |-> 32],
      [name |-> <<65, 46, 87, 73, 77>>, size |-> 0, attr |-> 0],
      [name |-> <<46, 119, 105, 109>>, size |-> 7, attr |-> 32],
      [name |-> <<119, 105, 109>>, size |-> 9, attr |-> 16],
      [name |-> <<97>>, size |-> 7, attr |-> 55],
      [name |-> <<>>, size |-> 0, attr |-> 32],
      [name |-> <<98, 111, 111, 116, 109, 103, 102, 119, 46, 101, 102, 105, 46, 87, 73, 77>>,
       size |-> 9, attr |-> 32] }

\* the entries offered when efi_extract is called more than once
RepeatEntries ==
    { e \in Entries : e.name \in { <<98, 111, 111, 116, 109, 103, 102, 119, 46, 101, 102, 105>>,
                                   <<66, 67, 68>>, <<97>> } }

\* efi_extract ( handle ) is entered: unsigned int idx = 0 (line 137); the
\* globals vdisk_files[] and bootmgfw[] are as the process has them
efi_extract_enter ==
    /\ ext_pc = "idle"
    /\ pass < MaxPasses
    /\ ext_pc' = "open_fs"
    /\ idx' = 0
    /\ dir' = <<>>
    /\ nopen' = 0
    /\ suffix_cmp' = <<>>
    /\ pass' = pass + 1
    /\ UNCHANGED <<vdisk_files, bootmgfw>>
    /\ UNCHANGED bcd_vars
    /\ UNCHANGED rd_vars

\* lines 140-146: bs->OpenProtocol, which the firmware may fail
efi_open_fs ==
    /\ ext_pc = "open_fs"
    /\ \E efirc \in {0, 1} :
         ext_pc' = IF efirc # 0 THEN "fatal_open_fs" ELSE "open_root"
    /\ UNCHANGED <<idx, vdisk_files, bootmgfw, dir, nopen, suffix_cmp, pass>>
    /\ UNCHANGED bcd_vars
    /\ UNCHANGED rd_vars

\* lines 149-156: fs.fs->OpenVolume, which the firmware may fail, and
\* bs->CloseProtocol
efi_open_root ==
    /\ ext_pc = "open_root"
    /\ \E efirc \in {0, 1} :
         ext_pc' = IF efirc # 0 THEN "fatal_open_root" ELSE "scan"
    /\ UNCHANGED <<idx, vdisk_files, bootmgfw, dir, nopen, suffix_cmp, pass>>
    /\ UNCHANGED bcd_vars
    /\ UNCHANGED rd_vars

\* lines 163-166: root->Read fails
efi_read_dir_fail ==
    /\ ext_pc = "scan"
    /\ ext_pc' = "fatal_read_dir"
    /\ UNCHANGED <<idx, vdisk_files, bootmgfw, dir, nopen, suffix_cmp, pass>>
    /\ UNCHANGED bcd_vars
    /\ UNCHANGED rd_vars

\* lines 167-168 and 208-212: root->Read reports the end of the directory
\* (size 0), the loop ends and the boot file check is made
efi_read_dir_end ==
    /\ ext_pc = "scan"
    /\ ext_pc' = IF bootmgfw = <<>> THEN "fatal_no_boot" ELSE "returned"
    /\ UNCHANGED <<idx, vdisk_files, bootmgfw, dir, nopen, suffix_cmp, pass>>
    /\ UNCHANGED bcd_vars
    /\ UNCHANGED rd_vars

\* lines 162-205: one iteration of the loop in which root->Read returns an
\* entry e of E; root->Open of that entry returns status efirc
efi_read_dir_entry(E) ==
    /\ ext_pc = "scan"
    /\ \E e \in E, efirc \in {0, 1} :
         /\ dir' = Append(dir, e)
         /\ IF TooMany(idx)
            THEN /\ ext_pc' = "fatal_too_many"
                 /\ UNCHANGED <<idx, vdisk_files, bootmgfw, nopen, suffix_cmp>>
            ELSE IF efirc # 0
            THEN /\ ext_pc' = "fatal_open"
                 /\ nopen' = nopen + 1
                 /\ UNCHANGED <<idx, vdisk_files, bootmgfw, suffix_cmp>>
            ELSE LET c == Classify(e)
                     added == AddFile(vdisk_files, idx, e, nopen + 1) IN
                 /\ ext_pc' = "scan"
                 /\ nopen' = nopen + 1
                 /\ idx' = idx + 1
                 /\ vdisk_files' =
                        IF c.patch = "same" THEN added
                        ELSE [added EXCEPT ![idx + 1].patch = c.patch]
                 /\ bootmgfw' = IF c.boot THEN NextMarker(bootmgfw, e.name) ELSE bootmgfw
                 /\ suffix_cmp' = c.cmp
    /\ UNCHANGED pass
    /\ UNCHANGED bcd_vars
    /\ UNCHANGED rd_vars

\* efi_extract returned and is called again in the same process
efi_extract_again ==
    /\ ext_pc = "returned"
    /\ pass < MaxPasses
    /\ ext_pc' = "idle"
    /\ UNCHANGED <<idx, vdisk_files, bootmgfw, dir, nopen, suffix_cmp, pass>>
    /\ UNCHANGED bcd_vars
    /\ UNCHANGED rd_vars

ExtInit == BcdIdle /\ ExtIdle /\ RdIdle

ExtNext ==
    \/ efi_extract_enter
    \/ efi_open_fs
    \/ efi_open_root
    \/ efi_read_dir_fail
    \/ efi_read_dir_end
    \/ efi_read_dir_entry(Entries)

\* one call of efi_extract in a fresh process
SpecExtract == ExtInit /\ [][ExtNext]_vars

RepeatNext ==
    \/ efi_extract_enter
    \/ efi_open_fs
    \/ efi_open_root
    \/ efi_read_dir_fail
    \/ efi_read_dir_end
    \/ efi_read_dir_entry(RepeatEntries)
    \/ efi_extract_again

\* repeated calls of efi_extract in one process
SpecRepeat == ExtInit /\ [][RepeatNext]_vars

(***************************************************************************)
(* efi_read_file                                                           *)
(***************************************************************************)
\* file->Read ( file, &size, data ) when it succeeds: the firmware copies the
\* bytes from the file position on, as many as the file has and at most size,
\* to the start of the buffer, and stores their number in size
FileRead(bytes, pos, size, buf) ==
    LET n == Min(size, Len(bytes) - pos) IN
    [size |-> n,
     data |-> [j \in 1..Len(buf) |-> IF j <= n THEN bytes[pos + j] ELSE buf[j]],
     pos |-> pos + n]

\* lines 79-82: the outcome of the read step for status efirc; the byte count
\* the firmware stored in size is not looked at
ReadOutcome(efirc, size, n) ==
    IF efirc # 0 THEN "fatal_read" ELSE "returned"

\* lines 73-76: the outcome of the seek step for status efirc
SeekOutcome(efirc) ==
    IF efirc # 0 THEN "fatal_set_position" ELSE "read"

\* files of up to n bytes over two byte values
RECURSIVE Files(_)
Files(n) ==
    IF n = 0 THEN {<<>>}
    ELSE LET F == Files(n - 1) IN F \cup {Append(f, b) : f \in F, b \in {17, 34}}

\* efi_read_file ( vfile, data, offset, len ) is called: UINTN size = len
\* (line 69); the buffer holds whatever it held (255 in every byte here)
RdInit ==
    /\ BcdIdle
    /\ ExtIdle
    /\ rd_pc = "set_position"
    /\ file_bytes \in Files(MaxFileLen)
    /\ file_pos \in 0..Len(file_bytes)
    /\ rd_offset \in 0..MaxFileLen
    /\ rd_len \in 0..MaxFileLen
    /\ rd_data = [j \in 1..rd_len |-> 255]
    /\ rd_size = rd_len
    /\ rd_calls = <<>>

\* lines 73-76: file->SetPosition ( file, offset ); the firmware fails it
\* (efirc 1) or moves the position, which may lie behind the end of the file
efi_read_file_set_position ==
    /\ rd_pc = "set_position"
    /\ \E efirc \in {0, 1} :
         /\ rd_pc' = SeekOutcome(efirc)
         /\ file_pos' = IF efirc = 0 THEN rd_offset ELSE file_pos
         /\ rd_calls' = Append(rd_calls, <<"SetPosition", efirc>>)
    /\ UNCHANGED <<file_bytes, rd_offset, rd_len, rd_data, rd_size>>
    /\ UNCHANGED bcd_vars
    /\ UNCHANGED ext_vars

\* lines 79-82: file->Read ( file, &size, data ); the firmware fails it
\* (always so when the position is behind the end of the file) or delivers
\* the bytes the file has from the position on
efi_read_file_read ==
    /\ rd_pc = "read"
    /\ \E efirc \in {0, 1} :
         /\ (file_pos > Len(file_bytes)) => efirc = 1
         /\ LET r == FileRead(file_bytes, file_pos, rd_size, rd_data) IN
              /\ rd_size' = IF efirc = 0 THEN r.size ELSE rd_size
              /\ rd_data' = IF efirc = 0 THEN r.data ELSE rd_data
              /\ file_pos' = IF efirc = 0 THEN r.pos ELSE file_pos
              /\ rd_pc' = ReadOutcome(efirc, IF efirc = 0 THEN r.size ELSE rd_size, rd_len)
         /\ rd_calls' = Append(rd_calls, <<"Read", efirc>>)
    /\ UNCHANGED <<file_bytes, rd_offset, rd_len>>
    /\ UNCHANGED bcd_vars
    /\ UNCHANGED ext_vars

RdNext ==
    \/ efi_read_file_set_position
    \/ efi_read_file_read

SpecRead == RdInit /\ [][RdNext]_vars

(***************************************************************************)
(* Calls of efi_patch_bcd                                                  *)
(***************************************************************************)
\* the pieces the memory at `data' is assembled from: ".exe" and ".EXE" with
\* their terminators, ".eXe2" (a longer string), one zero byte (which puts
\* what follows at an odd offset), "a", and the incomplete ".ex"
Segments ==
    { Bytes(<<46, 101, 120, 101, 0>>),
      Bytes(<<46, 69, 88, 69, 0>>),
      Bytes(<<46, 101, 88, 101, 50>>),
      <<0>>,
      Bytes(<<97>>),
      Bytes(<<46, 101, 120>>) }

RECURSIVE Concats(_)
Concats(n) ==
    IF n = 0 THEN {<<>>}
    ELSE LET P == Concats(n - 1) IN P \cup {p \o s : p \in P, s \in Segments}

Memories == Concats(MaxSegs)

BcdInit ==
    /\ cmdline_rawbcd \in BOOLEAN
    /\ data \in Memories
    /\ len \in 0..Len(data)
    /\ data0 = data
    /\ bcd_pc = "call"
    /\ acc_hi = -1
    /\ ExtIdle
    /\ RdIdle

\* one call of efi_patch_bcd on the buffer data[0 .. len-1]
efi_patch_bcd ==
    /\ bcd_pc = "call"
    /\ LET r == efi_patch_bcd_result(cmdline_rawbcd, data, len) IN
         /\ data' = r.mem
         /\ acc_hi' = r.hi
         /\ bcd_pc' = r.out
    /\ UNCHANGED <<cmdline_rawbcd, len, data0>>
    /\ UNCHANGED ext_vars
    /\ UNCHANGED rd_vars

BcdNext == efi_patch_bcd

SpecBcd == BcdInit /\ [][BcdNext]_vars

(***************************************************************************)
(* Properties of efi_patch_bcd                                             *)
(***************************************************************************)
\* the length of the token with its terminator, in bytes
TokenSpan == Len(Bytes(<<46, 101, 120, 101, 0>>))

\* the bytes of m at offsets i .. i + TokenSpan - 1 hold ".exe" in some
\* letter case followed by the terminator
IsToken(m, i) ==
    /\ i >= 0
    /\ i + TokenSpan <= Len(m)
    /\ LET u == UnitsAt(m, i) IN
         /\ u[1] = 46
         /\ u[2] \in {69, 101}
         /\ u[3] \in {88, 120}
         /\ u[4] \in {69, 101}
         /\ u[5] = 0

\* the bytes of m at offset i hold ".exe" in some letter case followed by a
\* code unit that is not the terminator
IsLongerString(m, i) ==
    /\ i >= 0
    /\ i + TokenSpan <= Len(m)
    /\ LET u == UnitsAt(m, i) IN
         /\ u[1] = 46
         /\ u[2] \in {69, 101}
         /\ u[3] \in {88, 120}
         /\ u[4] \in {69, 101}
         /\ u[5] # 0

\* the four characters of m at byte offset i
FourChars(m, i) == SubSeq(m, i + 1, i + TokenSpan - 2)

efi_text == Bytes(<<46, 101, 102, 105>>)

\* C2 (as claimed): with raw-BCD mode off, after efi_patch_bcd returns, every
\* offset at which ".exe" (any case) and its terminator lay wholly inside the
\* buffer reads ".efi".
C2_EveryTokenInsidePatched ==
    (bcd_pc = "returned" /\ ~cmdline_rawbcd) =>
        \A i \in 0..(len - TokenSpan) :
            IsToken(data0, i) => FourChars(data, i) = efi_text

\* what the loop bound does give: every token that is followed by at least one
\* more byte of the buffer is patched (kept as a cross-check of the model)
C2_TokenBeforeLastBytePatched ==
    (bcd_pc = "returned" /\ ~cmdline_rawbcd) =>
        \A i \in 0..(len - TokenSpan - 1) :
            IsToken(data0, i) => FourChars(data, i) = efi_text

\* C3 (as claimed): efi_patch_bcd touches no byte at an offset >= len, and
\* for len below the token width it makes no iteration and leaves the memory
\* as it was.
C3_NoAccessAtOrAboveLen ==
    bcd_pc # "call" =>
        /\ acc_hi < len
        /\ bcd_pc = "returned"
        /\ (len < TokenSpan => (acc_hi = -1 /\ data = data0))

\* the part of C3 that the loop bound gives: for len of at least the token
\* width no byte at an offset >= len is touched (cross-check of the model)
C3_NoAccessAboveLenWhenLong ==
    (bcd_pc # "call" /\ len >= TokenSpan) => (acc_hi < len /\ bcd_pc = "returned")

\* C8: with the raw-BCD flag set efi_patch_bcd leaves every byte unchanged
\* and touches none, whatever the content and the length.
C8_RawBcdUnchanged ==
    (bcd_pc # "call" /\ cmdline_rawbcd) =>
        (data = data0 /\ acc_hi = -1 /\ bcd_pc = "returned")

\* a call in raw-BCD mode has returned on a buffer holding a token that the
\* loop would have patched
C8_Witness ==
    /\ bcd_pc = "returned"
    /\ cmdline_rawbcd
    /\ \E i \in 0..(len - TokenSpan - 1) : IsToken(data0, i)

\* C10: with raw-BCD mode off, every byte efi_patch_bcd changed is one of the
\* four characters of a ".exe" (any case) that was followed by its
\* terminator; the memory keeps its length; and the four characters of a
\* ".exe" followed by a further character keep their values.
C10_OnlyTokenBytesChange ==
    (bcd_pc # "call" /\ ~cmdline_rawbcd) =>
        /\ Len(data) = Len(data0)
        /\ \A j \in 0..(Len(data0) - 1) :
              data[j + 1] # data0[j + 1] =>
                  \E i \in (j - TokenSpan + 3)..j : IsToken(data0, i)
        /\ \A i \in 0..(Len(data0) - TokenSpan) :
              IsLongerString(data0, i) => FourChars(data, i) = FourChars(data0, i)

\* a call with raw-BCD mode off has returned having patched a token, on a
\* buffer that also holds a scanned ".exe" followed by a further character
C10_Witness ==
    /\ bcd_pc = "returned"
    /\ ~cmdline_rawbcd
    /\ data # data0
    /\ \E i \in 0..(len - TokenSpan - 1) : IsLongerString(data0, i)
    /\ \E i \in 0..(len - TokenSpan - 1) : IsToken(data0, i)

(***************************************************************************)
(* Properties of efi_extract                                               *)
(***************************************************************************)
\* the loop of efi_extract has ended (by the end of the directory)
LoopEnded == ext_pc \in {"returned", "fatal_no_boot"}

Fold(name) == [i \in 1..Len(name) |-> IF name[i] \in 65..90 THEN name[i] + 32 ELSE name[i]]

\* rules 1 and 2: the name is "bootx64.efi" or "bootmgfw.efi" in some letter case
IsBootName(name) ==
    Fold(name) \in { <<98, 111, 111, 116, 120, 54, 52, 46, 101, 102, 105>>,
                     <<98, 111, 111, 116, 109, 103, 102, 119, 46, 101, 102, 105>> }

\* rule 3: the name is "bcd" in some letter case
IsBcdName(name) == Fold(name) = <<98, 99, 100>>

\* rule 4: the last 4 characters are ".wim" in some letter case
HasWimSuffix(name) ==
    /\ Len(name) >= 4
    /\ Fold(SubSeq(name, Len(name) - 3, Len(name))) = <<46, 119, 105, 109>>

\* the patch strategy the precedence boot file > BCD > .wim gives a name
ExpectedPatch(name) ==
    IF IsBootName(name) THEN "NULL"
    ELSE IF IsBcdName(name) THEN "efi_patch_bcd"
    ELSE IF HasWimSuffix(name) THEN "patch_wim"
    ELSE "NULL"

\* positions of dir whose entry matches rule 1 or 2
BootPositions == {i \in 1..Len(dir) : IsBootName(dir[i].name)}

\* C1: when the loop ends on a directory of N <= VDISK_MAX_FILES entries,
\* idx is N, slot i holds the (narrowed) name and the size of the i-th entry
\* returned and the other slots are empty; the entry number
\* VDISK_MAX_FILES + 1 ends the scan in the capacity error before it is
\* opened, nothing is read after it, and the memory behind the last slot is
\* never written.
C1_TableInFirmwareOrder ==
    /\ LoopEnded =>
          /\ Len(dir) <= VDISK_MAX_FILES
          /\ idx = Len(dir)
          /\ \A i \in 1..Len(dir) :
                /\ vdisk_files[i].name = [k \in 1..Len(dir[i].name) |-> dir[i].name[k]]
                /\ vdisk_files[i].len = dir[i].size
                /\ vdisk_files[i].read = "efi_read_file"
          /\ \A i \in (Len(dir) + 1)..VDISK_MAX_FILES : vdisk_files[i] = EmptySlot
    /\ (Len(dir) > VDISK_MAX_FILES \/ ext_pc = "fatal_too_many") =>
          /\ ext_pc = "fatal_too_many"
          /\ Len(dir) = VDISK_MAX_FILES + 1
          /\ nopen = VDISK_MAX_FILES
          /\ idx = VDISK_MAX_FILES
    /\ nopen <= VDISK_MAX_FILES
    /\ vdisk_files[VDISK_MAX_FILES + 1] = EmptySlot

\* a scan of exactly VDISK_MAX_FILES entries, not all the same, has returned
C1_Witness ==
    /\ ext_pc = "returned"
    /\ Len(dir) = VDISK_MAX_FILES
    /\ dir[1].name # dir[2].name
    /\ dir[1].size # dir[2].size

\* a scan has ended in the capacity error
C1_WitnessTooMany == ext_pc = "fatal_too_many" /\ Len(dir) = VDISK_MAX_FILES + 1

\* C4 (as claimed): for an entry whose name has fewer than 4 characters and
\* matches none of rules 1-3, the ".wim" comparison reads no code unit before
\* the start of the name or behind its terminator, and the descriptor gets no
\* WIM patch strategy.
C4_ShortNameSuffixInBounds ==
    (ext_pc = "scan" /\ idx > 0) =>
        LET name == dir[idx].name IN
        (Len(name) < 4 /\ ~IsBootName(name) /\ ~IsBcdName(name)) =>
            /\ suffix_cmp # <<>> =>
                  /\ suffix_cmp[1] >= 0
                  /\ suffix_cmp[1] + suffix_cmp[2] <= Len(name) + 1
            /\ vdisk_files[idx].patch # "patch_wim"

\* the part of C4 that holds: such a descriptor gets no WIM patch strategy
\* (for firmware whose Attribute values have only defined bits)
C4_ShortNameNoWimPatch ==
    (ext_pc = "scan" /\ idx > 0) =>
        (Len(dir[idx].name) < 4 => vdisk_files[idx].patch # "patch_wim")

\* C5: the patch strategy of every descriptor is the one the precedence
\* boot file > BCD > .wim suffix gives its name, compared ignoring letter
\* case: efi_patch_bcd exactly for "BCD", patch_wim exactly for a ".wim"
\* suffix that no earlier rule takes, none otherwise; names that differ only
\* in letter case get the same strategy.
C5_PatchFollowsPrecedence ==
    /\ \A i \in 1..idx : vdisk_files[i].patch = ExpectedPatch(dir[i].name)
    /\ \A i, j \in 1..idx :
          Fold(dir[i].name) = Fold(dir[j].name) =>
              vdisk_files[i].patch = vdisk_files[j].patch

\* a scan has added "BCD" in two letter cases, both with the BCD patcher, and
\* a file with the WIM patcher
C5_Witness ==
    /\ ext_pc = "scan"
    /\ \E i, j \in 1..idx :
          /\ dir[i].name # dir[j].name
          /\ IsBcdName(dir[i].name)
          /\ IsBcdName(dir[j].name)
          /\ vdisk_files[i].patch = "efi_patch_bcd"
          /\ vdisk_files[j].patch = "efi_patch_bcd"
    /\ \E i \in 1..idx : vdisk_files[i].patch = "patch_wim"

\* C6 (as claimed): at the end of a scan the marker holds the name of the
\* first entry that matched rule 1 or 2.
C6_FirstMatchWins ==
    (LoopEnded /\ BootPositions # {}) =>
        \E i \in BootPositions :
            /\ \A j \in BootPositions : i <= j
            /\ bootmgfw = dir[i].name

\* C6 (amended): at the end of a scan the marker holds the name of the last
\* entry that matched rule 1 or 2; every later match replaces it.
C6_LastMatchWins ==
    (LoopEnded /\ BootPositions # {}) =>
        \E i \in BootPositions :
            /\ \A j \in BootPositions : j <= i
            /\ bootmgfw = dir[i].name

\* a scan has returned in which an entry matching the architecture name is
\* followed by an entry named bootmgfw.efi
C6_Witness ==
    /\ ext_pc = "returned"
    /\ \E i, j \in BootPositions :
          /\ i < j
          /\ Fold(dir[i].name) = <<98, 111, 111, 116, 120, 54, 52, 46, 101, 102, 105>>
          /\ dir[j].name = <<98, 111, 111, 116, 109, 103, 102, 119, 46, 101, 102, 105>>

\* C7 (as claimed): in every pass, also one that follows an earlier pass,
\* the scan ends in the missing-boot-file error exactly when no entry of that
\* pass matched rule 1 or 2; every entry has then been added; and the patch
\* strategies reflect the entries of the current pass only.
C7_NoBootIffNoMatch ==
    LoopEnded =>
        /\ (ext_pc = "fatal_no_boot") <=> (BootPositions = {})
        /\ idx = Len(dir)
        /\ \A i \in 1..idx : vdisk_files[i].patch = ExpectedPatch(dir[i].name)

\* the same for the first pass of a process only (cross-check of the model)
C7_FirstPassOnly == pass = 1 => C7_NoBootIffNoMatch

(***************************************************************************)
(* Properties of efi_read_file                                             *)
(***************************************************************************)
\* the rd_len bytes of the file from rd_offset on are in the buffer
Delivered ==
    /\ rd_offset + rd_len <= Len(file_bytes)
    /\ rd_data = SubSeq(file_bytes, rd_offset + 1, rd_offset + rd_len)

\* C9 (as claimed): efi_read_file returns only with exactly len bytes from
\* offset in the buffer; a failed seek, a failed read and a read that
\* succeeds with fewer than len bytes are each fatal; no read follows a failed
\* seek.
C9_ExactReadOrFatal ==
    /\ rd_pc = "returned" => Delivered
    /\ (rd_calls # <<>> /\ rd_calls[Len(rd_calls)][2] # 0) =>
          rd_pc \in {"fatal_set_position", "fatal_read"}
    /\ (Len(rd_calls) = 2 /\ rd_size < rd_len) => rd_pc = "fatal_read"
    /\ (rd_calls # <<>> /\ rd_calls[1] = <<"SetPosition", 1>>) =>
          (Len(rd_calls) = 1 /\ rd_pc = "fatal_set_position")

\* the part of C9 the code gives: non-zero statuses are fatal, no read
\* follows a failed seek, and a return with the full count has delivered the
\* bytes (cross-check of the model)
C9_StatusesFatal ==
    /\ (rd_pc = "returned" /\ rd_size = rd_len) => Delivered
    /\ (rd_calls # <<>> /\ rd_calls[Len(rd_calls)][2] # 0) =>
          rd_pc \in {"fatal_set_position", "fatal_read"}
    /\ (rd_calls # <<>> /\ rd_calls[1] = <<"SetPosition", 1>>) =>
          (Len(rd_calls) = 1 /\ rd_pc = "fatal_set_position")

====
